---- MODULE Spec2Model ----
(***************************************************************************)
(* Model of the Shenano orchestrator (src/src/App.tsx) and of the Gemini   *)
(* service clients it calls (src/unnamed/part_001, geminiService).         *)
(*                                                                         *)
(* Strings are sequences of tokens (characters for prompts, phrases for    *)
(* error texts), so that trim(), includes() and template concatenation are *)
(* computed rather than assumed.  A nullable string is the string Null, a  *)
(* nullable object or token sequence is an option: <<>> for null and <<x>> *)
(* for the value x.                                                        *)
(*                                                                         *)
(* Every click of Generate or Retry creates one activation of the async    *)
(* function handleGenerate; an activation keeps the values its closure     *)
(* captured at the click and its position (pc) between two awaits.         *)
(***************************************************************************)
EXTENDS Integers, Sequences, FiniteSets, TLC

(* ------------------------------ bounds -------------------------------- *)
MaxPromptLen == 2
MaxRefs == 1
MaxRuns == 2

(* ------------------------------ values -------------------------------- *)
Null == "<null>"
Undefined == "<undefined>"
None == <<>>
Some(x) == <<x>>

IDLE == "IDLE"
LOADING == "LOADING"
SUCCESS == "SUCCESS"
ERROR == "ERROR"
AppState == {IDLE, LOADING, SUCCESS, ERROR}

SQUARE == "1:1"
PORTRAIT == "9:16"
LANDSCAPE == "16:9"
AspectRatio == {SQUARE, PORTRAIT, LANDSCAPE}

Space == " "
Quote == "\""
Chars == {Space, "a"}

RECURSIVE SeqsUpTo(_, _)
SeqsUpTo(S, n) ==
  IF n = 0 THEN {<<>>}
  ELSE LET shorter == SeqsUpTo(S, n - 1)
       IN  shorter \cup {Append(s, c) : s \in {t \in shorter : Len(t) = n - 1}, c \in S}

Prompts == SeqsUpTo(Chars, MaxPromptLen)
RefImages == SeqsUpTo({"ref.png"}, MaxRefs)
ApiKeys == {"key1", "key2"}

(* texts the quoting model may answer with *)
QuoteResponseTexts ==
  { <<>>, <<Space>>, <<"a">>,
    <<"a", Quote, "a", Quote>>,
    <<Space, Quote, "a", Quote, Space>> }

(* ------------------------- String.prototype ---------------------------- *)
RECURSIVE trimStart(_)
trimStart(s) ==
  IF s # <<>> /\ Head(s) = Space THEN trimStart(Tail(s)) ELSE s

RECURSIVE trimEnd(_)
trimEnd(s) ==
  IF s # <<>> /\ s[Len(s)] = Space THEN trimEnd(SubSeq(s, 1, Len(s) - 1)) ELSE s

trim(s) == trimEnd(trimStart(s))

includes(s, token) == \E i \in 1..Len(s) : s[i] = token

(* JavaScript truthiness of a string | null *)
Truthy(s) == s # Null /\ s # ""

(* template-literal conversion of a possibly missing property *)
ToStr(v) == IF v = Undefined THEN "undefined" ELSE IF v = Null THEN "null" ELSE v

(* ----------------------------- errors ---------------------------------- *)
KEY_NOT_VALID == "API key not valid"
API_KEY_INVALID == "API_KEY_INVALID"

MkError(msg) == [isError |-> TRUE, message |-> msg]
(* a rejection with a value that is not an Error instance *)
NonErrorThrow == [isError |-> FALSE, message |-> <<>>]

(* rejections of ai.models.generateContent *)
CredentialRejections ==
  { MkError(<<"400 ", KEY_NOT_VALID, ". Please pass a valid API key.">>),
    MkError(<<"{reason: ", API_KEY_INVALID, "}">>) }
OtherRejections ==
  { MkError(<<"fetch failed">>), NonErrorThrow }
ApiRejections == CredentialRejections \cup OtherRejections

(* thrown by a property access on null / undefined *)
TypeErrorThrow == MkError(<<"Cannot read properties of undefined">>)

Returned(v) == [threw |-> FALSE, value |-> v, error |-> NonErrorThrow]
Threw(e) == [threw |-> TRUE, value |-> Null, error |-> e]

(* ------------------- geminiService: addQuotesToPrompt ------------------- *)
(* outcomes of the text-generation endpoint *)
QuoteOutcomes ==
  { [ok |-> TRUE, hasText |-> TRUE, text |-> t, error |-> NonErrorThrow] :
      t \in QuoteResponseTexts }
  \cup { [ok |-> TRUE, hasText |-> FALSE, text |-> <<>>, error |-> NonErrorThrow] }
  \cup { [ok |-> FALSE, hasText |-> FALSE, text |-> <<>>, error |-> e] :
      e \in ApiRejections }

(* whether addQuotesToPrompt reaches ai.models.generateContent *)
addQuotesCallsEndpoint_EmptyOnly(prompt) == prompt # <<>>
addQuotesCallsEndpoint(prompt) == trim(prompt) # <<>>

addQuotesToPrompt_Rethrows(prompt, outcome) ==
  IF ~addQuotesCallsEndpoint(prompt) THEN Returned(prompt)
  ELSE IF ~outcome.ok THEN Threw(outcome.error)
  ELSE IF ~outcome.hasText THEN Threw(TypeErrorThrow)
  ELSE LET quotedPrompt == trim(outcome.text)
       IN  Returned(IF quotedPrompt # <<>> THEN quotedPrompt ELSE prompt)

(* the value addQuotesToPrompt resolves to, given the endpoint's outcome *)
addQuotesToPrompt(prompt, outcome) ==
  IF ~addQuotesCallsEndpoint(prompt) THEN Returned(prompt)
  ELSE IF ~outcome.ok THEN Returned(prompt)
  ELSE IF ~outcome.hasText THEN Returned(prompt)
  ELSE LET quotedPrompt == trim(outcome.text)
       IN  Returned(IF quotedPrompt # <<>> THEN quotedPrompt ELSE prompt)

(* --------------- components/utils: extractTextAndGeneratePlates --------- *)
RECURSIVE indexOf(_, _, _)
indexOf(s, c, from) ==
  IF from > Len(s) THEN 0
  ELSE IF s[from] = c THEN from ELSE indexOf(s, c, from + 1)

RECURSIVE quotedSpans(_, _)
quotedSpans(s, from) ==
  LET open == indexOf(s, Quote, from)
      close == IF open = 0 THEN 0 ELSE indexOf(s, Quote, open + 1)
  IN  IF open = 0 \/ close = 0 THEN <<>>
      ELSE LET text == SubSeq(s, open + 1, close - 1)
           IN  (IF trim(text) = <<>> THEN <<>> ELSE <<text>>)
               \o quotedSpans(s, close + 1)

extractTextAndGeneratePlates(quotedPrompt) ==
  LET spans == quotedSpans(quotedPrompt, 1)
  IN  [i \in 1..Len(spans) |-> [name |-> <<"text_plate_", i, ".png">>, text |-> spans[i]]]

(* --------------------- geminiService: engineerPrompt -------------------- *)
EngineeredObject(pp, tri, np, gq) ==
  [professional_prompt |-> pp, text_replication_instruction |-> tri,
   negative_prompt |-> np, grounding_search_query |-> gq]

(* response.text of the engineering endpoint, with what JSON.parse makes of it *)
JsonText(raw, json, obj) == [raw |-> raw, json |-> json, object |-> obj]
NoObject == EngineeredObject(Undefined, Undefined, Undefined, Undefined)

EngineerResponseTexts ==
  { JsonText("Sorry, I cannot help", "SyntaxError", NoObject),
    JsonText(API_KEY_INVALID, "SyntaxError", NoObject),
    JsonText("null", "null", NoObject),
    JsonText("{}", "object", NoObject),
    JsonText("{pp,tri,np,gq:null}", "object", EngineeredObject("PP", "TRI", "NP", Null)),
    JsonText("{pp,tri,np,gq}", "object", EngineeredObject("PP", "TRI", "NP", "Azadi Tower")) }

EngineerOutcomes ==
  { [ok |-> TRUE, response |-> r, error |-> NonErrorThrow] : r \in EngineerResponseTexts }
  \cup { [ok |-> FALSE, response |-> JsonText("", "SyntaxError", NoObject), error |-> e] :
           e \in ApiRejections }

(* the parsed value is "null" or an object; it is cast, never validated *)
engineerPrompt(outcome) ==
  IF ~outcome.ok THEN Threw(outcome.error)
  ELSE LET responseText == outcome.response
       IN  IF responseText.json = "SyntaxError"
           THEN Threw(MkError(<<"The AI returned an invalid response. Please try again. Raw response: ",
                                responseText.raw>>))
           ELSE [threw |-> FALSE,
                 value |-> [isNull |-> responseText.json = "null", object |-> responseText.object],
                 error |-> NonErrorThrow]

(* ---------------------- geminiService: generateImage -------------------- *)
TextPart == [inline |-> FALSE, data |-> "text"]
InlinePart(d) == [inline |-> TRUE, data |-> d]

ImageResponses ==
  { [hasCandidates |-> FALSE, parts |-> <<>>],
    [hasCandidates |-> TRUE, parts |-> <<>>],
    [hasCandidates |-> TRUE, parts |-> <<TextPart>>],
    [hasCandidates |-> TRUE, parts |-> <<InlinePart("img1")>>],
    [hasCandidates |-> TRUE, parts |-> <<TextPart, InlinePart("img2"), InlinePart("img1")>>] }

ImageOutcomes ==
  { [ok |-> TRUE, response |-> r, error |-> NonErrorThrow] : r \in ImageResponses }
  \cup { [ok |-> FALSE, response |-> [hasCandidates |-> FALSE, parts |-> <<>>], error |-> e] :
           e \in ApiRejections }

NO_IMAGE == "No image was generated by the model."

generateImage(outcome) ==
  IF ~outcome.ok THEN Threw(outcome.error)
  ELSE IF ~outcome.response.hasCandidates THEN Threw(TypeErrorThrow)
  ELSE LET parts == outcome.response.parts
           inl == {i \in 1..Len(parts) : parts[i].inline}
       IN  IF inl = {} THEN Threw(MkError(<<NO_IMAGE>>))
           ELSE LET first == CHOOSE i \in inl : \A j \in inl : i <= j
                IN  Returned(<<"data:image/png;base64,", parts[first].data>>)

(* ------------------------------- state ---------------------------------- *)
VARIABLES
  appState, errorMessage,                      \* App.tsx 49-50
  apiKey, isApiKeyModalOpen, apiKeyError,      \* App.tsx 53-55
  userPrompt, referenceImages, aspectRatio,    \* App.tsx 58-62
  resultUrl, lastConfig,                       \* App.tsx 65-73
  localStorage,                                \* the 'gemini-api-key' item
  mounted,                                     \* the mount effect has run
  runs,                                        \* activations of handleGenerate
  hist,                                        \* observation of the current run
  call                                         \* a client function invoked on its own

vars == <<appState, errorMessage, apiKey, isApiKeyModalOpen, apiKeyError,
          userPrompt, referenceImages, aspectRatio, resultUrl, lastConfig,
          localStorage, mounted, runs, hist, call>>

app == <<appState, errorMessage, apiKey, isApiKeyModalOpen, apiKeyError,
         userPrompt, referenceImages, aspectRatio, resultUrl, lastConfig,
         localStorage, mounted, runs, hist>>

inputs == <<userPrompt, referenceImages, aspectRatio>>
credential == <<apiKey, isApiKeyModalOpen, apiKeyError, localStorage>>

KEY_REQUIRED == "An API key is required to generate images."
KEY_IS_INVALID == "Your API key is invalid. Please enter a valid key."
UNKNOWN_ERROR == "An unknown error occurred."
GENERATION_FAILED == "Generation failed"
ENTER_A_PROMPT == "Please enter a prompt to generate."

(* hist observes the activation started last: the client functions it has
   invoked, the arguments it gave generateImage, how it ended.  It is written
   by the actions and read only by the properties. *)
NoHist ==
  [isRetry |-> FALSE, from |-> IDLE, calls |-> <<>>, genArgs |-> None,
   prevGenArgs |-> None, grounding |-> Undefined, rejected |-> {},
   prompt |-> <<>>, failure |-> None, outcome |-> "none", previous |-> "none",
   previousRetry |-> FALSE, justEnded |-> FALSE, quoteFailed |-> FALSE,
   startOverFrom |-> "none"]

(* a client function of geminiService invoked directly: its arguments, the
   requests it has sent to its endpoint, the endpoint's outcome, its result *)
NoCall ==
  [fn |-> "none", pc |-> "idle", prompt |-> <<>>, apiKey |-> Null,
   requests |-> 0, outcome |-> None, result |-> None]

Init ==
  /\ appState = IDLE
  /\ errorMessage = None
  /\ apiKey = Null
  /\ isApiKeyModalOpen = FALSE
  /\ apiKeyError = Undefined
  /\ userPrompt = <<>>
  /\ referenceImages = <<>>
  /\ aspectRatio = SQUARE
  /\ resultUrl = None
  /\ lastConfig = None
  /\ localStorage \in {Null} \cup ApiKeys
  /\ mounted = FALSE
  /\ runs = <<>>
  /\ hist = NoHist
  /\ call = NoCall

(* a user action was taken: the last run is no longer the latest event *)
Touched == NoHist

(* ------------------------------ rendering ------------------------------- *)
isLoading == appState = LOADING
ShowModal == isApiKeyModalOpen
ShowLoading == isLoading
ShowError == appState = ERROR /\ errorMessage # None
ShowSuccess == appState = SUCCESS /\ resultUrl # None
ShowForm == ~isLoading /\ appState # SUCCESS
GenerateEnabled_WhileLoading == appState # SUCCESS /\ userPrompt # <<>>
GenerateEnabled_NoLoadingCheck == userPrompt # <<>>
GenerateEnabled == ShowForm /\ ~(isLoading \/ userPrompt = <<>>)

(* --------------------------- mount effect ------------------------------- *)
Mount ==
  /\ ~mounted
  /\ mounted' = TRUE
  /\ IF Truthy(localStorage)
     THEN apiKey' = localStorage /\ isApiKeyModalOpen' = FALSE
     ELSE apiKey' = apiKey /\ isApiKeyModalOpen' = TRUE
  /\ UNCHANGED <<appState, errorMessage, apiKeyError, inputs, resultUrl,
                 lastConfig, localStorage, runs, hist, call>>

handleSaveApiKey_NotStored(newApiKey) ==
  /\ mounted /\ ShowModal
  /\ apiKey' = newApiKey
  /\ localStorage' = localStorage
  /\ isApiKeyModalOpen' = FALSE
  /\ apiKeyError' = Undefined
  /\ hist' = Touched
  /\ UNCHANGED <<appState, errorMessage, inputs, resultUrl, lastConfig, mounted, call, runs>>

handleSaveApiKey(newApiKey) ==
  /\ mounted /\ ShowModal
  /\ apiKey' = newApiKey
  /\ localStorage' = newApiKey
  /\ isApiKeyModalOpen' = FALSE
  /\ apiKeyError' = Undefined
  /\ hist' = Touched
  /\ UNCHANGED <<appState, errorMessage, inputs, resultUrl, lastConfig, mounted, call, runs>>

(* ------------------------------ the form -------------------------------- *)
setUserPrompt(p) ==
  /\ mounted /\ ShowForm /\ p # userPrompt
  /\ userPrompt' = p
  /\ hist' = Touched
  /\ UNCHANGED <<appState, errorMessage, credential, referenceImages, aspectRatio,
                 resultUrl, lastConfig, mounted, call, runs>>

setReferenceImages(r) ==
  /\ mounted /\ ShowForm /\ r # referenceImages
  /\ referenceImages' = r
  /\ hist' = Touched
  /\ UNCHANGED <<appState, errorMessage, credential, userPrompt, aspectRatio,
                 resultUrl, lastConfig, mounted, call, runs>>

setAspectRatio(a) ==
  /\ mounted /\ ShowForm /\ a # aspectRatio
  /\ aspectRatio' = a
  /\ hist' = Touched
  /\ UNCHANGED <<appState, errorMessage, credential, userPrompt, referenceImages,
                 resultUrl, lastConfig, mounted, call, runs>>

(* ----------------------------- handleError ------------------------------ *)
errorDetails(error) ==
  IF error # None /\ error[1].isError THEN error[1].message ELSE <<UNKNOWN_ERROR>>

isApiKeyError_FirstTextOnly(details) == includes(details, KEY_NOT_VALID)
isApiKeyError(details) ==
  includes(details, KEY_NOT_VALID) \/ includes(details, API_KEY_INVALID)

userFriendlyMessage_DetailsOnly(message, details) == details
userFriendlyMessage(message, details) == <<message, ": ">> \o details

handleError_KeepsStoredKey(message, error) ==
  LET details == errorDetails(error)
  IN  IF isApiKeyError(details)
      THEN /\ localStorage' = localStorage
           /\ apiKey' = Null
           /\ apiKeyError' = KEY_IS_INVALID
           /\ isApiKeyModalOpen' = TRUE
           /\ appState' = IDLE
           /\ errorMessage' = errorMessage
      ELSE /\ errorMessage' = Some(userFriendlyMessage(message, details))
           /\ appState' = ERROR
           /\ UNCHANGED credential

handleError_StaysLoading(message, error) ==
  LET details == errorDetails(error)
  IN  IF isApiKeyError(details)
      THEN /\ localStorage' = Null
           /\ apiKey' = Null
           /\ apiKeyError' = KEY_IS_INVALID
           /\ isApiKeyModalOpen' = TRUE
           /\ appState' = appState
           /\ errorMessage' = errorMessage
      ELSE /\ errorMessage' = Some(userFriendlyMessage(message, details))
           /\ appState' = ERROR
           /\ UNCHANGED credential

(* handleError(message, error) with the default state = AppState.ERROR *)
handleError(message, error) ==
  LET details == errorDetails(error)
  IN  IF isApiKeyError(details)
      THEN /\ localStorage' = Null
           /\ apiKey' = Null
           /\ apiKeyError' = KEY_IS_INVALID
           /\ isApiKeyModalOpen' = TRUE
           /\ appState' = IDLE
           /\ errorMessage' = errorMessage
      ELSE /\ errorMessage' = Some(userFriendlyMessage(message, details))
           /\ appState' = ERROR
           /\ UNCHANGED credential

(* ---------------------------- handleGenerate ---------------------------- *)
isRetryOf_Never(retryConfig) == FALSE
isRetryOf(retryConfig) == retryConfig # None

isBlank_NoTrim(prompt) == prompt = <<>>
isBlank_Always(prompt) == TRUE
isBlank(prompt) == trim(prompt) = <<>>

GenArgs(prompt, textPlates, refs) ==
  [prompt |-> prompt, textPlates |-> textPlates, referenceImages |-> refs]

NewRun(pc, isRetry, cfg) ==
  [pc |-> pc, isRetry |-> isRetry,
   apiKey |-> apiKey, currentPrompt |-> IF isRetry THEN <<>> ELSE userPrompt,
   referenceImages |-> referenceImages, aspectRatio |-> aspectRatio,
   quotedPrompt |-> <<>>, textPlates |-> <<>>, config |-> cfg]

RemoveAt(seq, i) == SubSeq(seq, 1, i - 1) \o SubSeq(seq, i + 1, Len(seq))

Attempt(isRetry, prompt) ==
  [NoHist EXCEPT !.isRetry = isRetry, !.from = appState, !.prompt = prompt,
                 !.prevGenArgs = hist.genArgs, !.previous = hist.outcome,
                 !.previousRetry = hist.isRetry]

(* lines 117-169, up to the first await *)
handleGenerate(retryConfig) ==
  LET isRetry == isRetryOf(retryConfig)
      currentPrompt == IF isRetry THEN <<>> ELSE userPrompt
  IN  IF ~Truthy(apiKey)
      THEN /\ isApiKeyModalOpen' = TRUE
           /\ apiKeyError' = KEY_REQUIRED
           /\ hist' = [Attempt(isRetry, currentPrompt) EXCEPT
                          !.outcome = "nokey", !.justEnded = TRUE]
           /\ UNCHANGED <<appState, errorMessage, apiKey, localStorage, resultUrl,
                          lastConfig, runs>>
      ELSE IF ~isRetry /\ isBlank(currentPrompt)
      THEN /\ handleError(ENTER_A_PROMPT, None)
           /\ hist' = [Attempt(isRetry, currentPrompt) EXCEPT
                          !.outcome = "rejected", !.justEnded = TRUE]
           /\ UNCHANGED <<resultUrl, lastConfig, runs>>
      ELSE /\ appState' = LOADING
           /\ resultUrl' = None
           /\ errorMessage' = None
           /\ UNCHANGED credential
           /\ IF isRetry
              THEN LET cfg == retryConfig[1]
                   IN  /\ lastConfig' = Some(cfg)
                       /\ runs' = Append(runs, NewRun("generateImage", TRUE, cfg))
                       /\ hist' = [Attempt(TRUE, currentPrompt) EXCEPT
                                      !.outcome = "running",
                                      !.calls = <<"generateImage">>,
                                      !.genArgs = Some(cfg)]
              ELSE /\ lastConfig' = lastConfig
                   /\ runs' = Append(runs, NewRun("addQuotesToPrompt", FALSE,
                                                  GenArgs(<<>>, <<>>, <<>>)))
                   /\ hist' = [Attempt(FALSE, currentPrompt) EXCEPT
                                  !.outcome = "running",
                                  !.calls = <<"addQuotesToPrompt">>]

(* the Generate button of the form, lines 318-321 *)
ClickGenerate ==
  /\ mounted /\ GenerateEnabled /\ Len(runs) < MaxRuns
  /\ handleGenerate(None)
  /\ UNCHANGED <<inputs, mounted, call>>

(* onRetry of the success view, lines 230-237 *)
ClickRetry ==
  /\ mounted /\ ShowSuccess /\ Len(runs) < MaxRuns
  /\ handleGenerate(lastConfig)
  /\ UNCHANGED <<inputs, mounted, call>>

(* the endpoint refused the credential *)
CredentialRejection(outcome) == ~outcome.ok /\ outcome.error \in CredentialRejections

(* the catch block of handleGenerate, lines 177-179 *)
Catch(i, step, error, rejectedByEndpoint) ==
  /\ handleError(GENERATION_FAILED, Some(error))
  /\ runs' = RemoveAt(runs, i)
  /\ hist' = [hist EXCEPT !.failure = Some([step |-> step, error |-> error]),
                          !.outcome = step \o " failed",
                          !.rejected = IF rejectedByEndpoint THEN @ \cup {step} ELSE @,
                          !.justEnded = TRUE]
  /\ UNCHANGED <<resultUrl, lastConfig>>

(* line 148: addQuotesToPrompt settles; line 149 starts the plate rendering *)
QuoteReturn(i, outcome) ==
  /\ runs[i].pc = "addQuotesToPrompt"
  /\ LET result == addQuotesToPrompt(runs[i].currentPrompt, outcome)
     IN  IF result.threw
         THEN Catch(i, "addQuotesToPrompt", result.error, CredentialRejection(outcome))
         ELSE /\ runs' = [runs EXCEPT ![i].quotedPrompt = result.value,
                                       ![i].pc = "extractTextAndGeneratePlates"]
              /\ hist' = [hist EXCEPT
                             !.calls = Append(@, "extractTextAndGeneratePlates"),
                             !.quoteFailed = ~outcome.ok \/ ~outcome.hasText
                                             \/ trim(outcome.text) = <<>>,
                             !.rejected = IF CredentialRejection(outcome)
                                          THEN @ \cup {"addQuotesToPrompt"} ELSE @]
              /\ UNCHANGED <<appState, errorMessage, credential, resultUrl, lastConfig>>
  /\ UNCHANGED <<inputs, mounted, call>>

(* line 149: the plates are rendered; lines 150-157 call engineerPrompt *)
PlatesReturn(i) ==
  /\ runs[i].pc = "extractTextAndGeneratePlates"
  /\ runs' = [runs EXCEPT ![i].textPlates = extractTextAndGeneratePlates(runs[i].quotedPrompt),
                           ![i].pc = "engineerPrompt"]
  /\ hist' = [hist EXCEPT !.calls = Append(@, "engineerPrompt")]
  /\ UNCHANGED <<appState, errorMessage, credential, inputs, resultUrl, lastConfig, mounted, call>>

promptOf(engineeredPrompt) ==
  << ToStr(engineeredPrompt.professional_prompt), "\n\n",
     ToStr(engineeredPrompt.text_replication_instruction), "\n\nNegative Prompt: ",
     ToStr(engineeredPrompt.negative_prompt) >>

EngineerReturn_ConfigNotStored(i, outcome) ==
  /\ runs[i].pc = "engineerPrompt"
  /\ LET result == engineerPrompt(outcome)
     IN  IF result.threw
         THEN Catch(i, "engineerPrompt", result.error, CredentialRejection(outcome))
         ELSE IF result.value.isNull
         THEN Catch(i, "handleGenerate", TypeErrorThrow, FALSE)
         ELSE LET engineeredPrompt == result.value.object
                  cfg == GenArgs(promptOf(engineeredPrompt), runs[i].textPlates,
                                 runs[i].referenceImages)
              IN  /\ lastConfig' = lastConfig
                  /\ runs' = [runs EXCEPT ![i].config = cfg, ![i].pc = "generateImage"]
                  /\ hist' = [hist EXCEPT
                                 !.grounding = engineeredPrompt.grounding_search_query,
                                 !.calls = Append(@, "generateImage"),
                                 !.genArgs = Some(cfg)]
                  /\ UNCHANGED <<appState, errorMessage, credential, resultUrl>>
  /\ UNCHANGED <<inputs, mounted, call>>

(* lines 150-169: engineerPrompt settles; the config is stored and
   generateImage is called with it *)
EngineerReturn(i, outcome) ==
  /\ runs[i].pc = "engineerPrompt"
  /\ LET result == engineerPrompt(outcome)
     IN  IF result.threw
         THEN Catch(i, "engineerPrompt", result.error, CredentialRejection(outcome))
         ELSE IF result.value.isNull
         THEN Catch(i, "handleGenerate", TypeErrorThrow, FALSE)
         ELSE LET engineeredPrompt == result.value.object
                  cfg == GenArgs(promptOf(engineeredPrompt), runs[i].textPlates,
                                 runs[i].referenceImages)
              IN  /\ lastConfig' = Some(cfg)
                  /\ runs' = [runs EXCEPT ![i].config = cfg, ![i].pc = "generateImage"]
                  /\ hist' = [hist EXCEPT
                                 !.grounding = engineeredPrompt.grounding_search_query,
                                 !.calls = Append(@, "generateImage"),
                                 !.genArgs = Some(cfg)]
                  /\ UNCHANGED <<appState, errorMessage, credential, resultUrl>>
  /\ UNCHANGED <<inputs, mounted, call>>

(* lines 169-176 *)
GenerateReturn(i, outcome) ==
  /\ runs[i].pc = "generateImage"
  /\ LET result == generateImage(outcome)
     IN  IF result.threw
         THEN Catch(i, "generateImage", result.error, CredentialRejection(outcome))
         ELSE /\ resultUrl' = Some(result.value)
              /\ appState' = SUCCESS
              /\ runs' = RemoveAt(runs, i)
              /\ hist' = [hist EXCEPT !.outcome = "success", !.justEnded = TRUE]
              /\ UNCHANGED <<errorMessage, credential, lastConfig>>
  /\ UNCHANGED <<inputs, mounted, call>>

(* --------------------------- handleStartOver ---------------------------- *)
handleStartOver_KeepsConfig ==
  /\ mounted /\ (ShowError \/ ShowSuccess)
  /\ appState' = IDLE
  /\ resultUrl' = None
  /\ errorMessage' = None
  /\ userPrompt' = <<>>
  /\ referenceImages' = <<>>
  /\ lastConfig' = lastConfig
  /\ aspectRatio' = SQUARE
  /\ hist' = [Touched EXCEPT !.startOverFrom = appState]
  /\ UNCHANGED <<credential, mounted, call, runs>>

handleStartOver_KeepsResult ==
  /\ mounted /\ (ShowError \/ ShowSuccess)
  /\ appState' = IDLE
  /\ resultUrl' = resultUrl
  /\ errorMessage' = None
  /\ userPrompt' = <<>>
  /\ referenceImages' = <<>>
  /\ lastConfig' = None
  /\ aspectRatio' = SQUARE
  /\ hist' = [Touched EXCEPT !.startOverFrom = appState]
  /\ UNCHANGED <<credential, mounted, call, runs>>

handleStartOver ==
  /\ mounted /\ (ShowError \/ ShowSuccess)
  /\ appState' = IDLE
  /\ resultUrl' = None
  /\ errorMessage' = None
  /\ userPrompt' = <<>>
  /\ referenceImages' = <<>>
  /\ lastConfig' = None
  /\ aspectRatio' = SQUARE
  /\ hist' = [Touched EXCEPT !.startOverFrom = appState]
  /\ UNCHANGED <<credential, mounted, call, runs>>

(* ---------------------------- specification ----------------------------- *)
Next ==
  \/ Mount
  \/ \E k \in ApiKeys : handleSaveApiKey(k)
  \/ \E p \in Prompts : setUserPrompt(p)
  \/ \E r \in RefImages : setReferenceImages(r)
  \/ \E a \in AspectRatio : setAspectRatio(a)
  \/ ClickGenerate
  \/ ClickRetry
  \/ \E i \in DOMAIN runs : \E o \in QuoteOutcomes : QuoteReturn(i, o)
  \/ \E i \in DOMAIN runs : PlatesReturn(i)
  \/ \E i \in DOMAIN runs : \E o \in EngineerOutcomes : EngineerReturn(i, o)
  \/ \E i \in DOMAIN runs : \E o \in ImageOutcomes : GenerateReturn(i, o)
  \/ handleStartOver

Spec == Init /\ [][Next]_vars

(* every awaited call settles: the endpoint answers or fails, and the
   continuation of the awaiting run is then scheduled *)
Settles ==
  /\ WF_vars(\E i \in DOMAIN runs : \E o \in QuoteOutcomes : QuoteReturn(i, o))
  /\ WF_vars(\E i \in DOMAIN runs : PlatesReturn(i))
  /\ WF_vars(\E i \in DOMAIN runs : \E o \in EngineerOutcomes : EngineerReturn(i, o))
  /\ WF_vars(\E i \in DOMAIN runs : \E o \in ImageOutcomes : GenerateReturn(i, o))

FairSpec == Spec /\ Settles

(* -------------------- the clients invoked on their own ------------------ *)
Settle(result, outcome) ==
  [call EXCEPT !.pc = "settled", !.outcome = outcome, !.result = Some(result)]

(* addQuotesToPrompt(userPrompt, apiKey), part_001 lines 41-60 *)
InvokeAddQuotes(p, k) ==
  /\ call.pc # "awaiting"
  /\ LET started == [NoCall EXCEPT !.fn = "addQuotesToPrompt", !.prompt = p, !.apiKey = k]
     IN  IF addQuotesCallsEndpoint(p)
         THEN call' = [started EXCEPT !.pc = "awaiting", !.requests = 1]
         ELSE call' = [started EXCEPT !.pc = "settled",
                                      !.result = Some(addQuotesToPrompt(p, None))]
  /\ UNCHANGED app

(* engineerPrompt(userPrompt, ..., apiKey), part_001 lines 129-185 *)
InvokeEngineer(p, k) ==
  /\ call.pc # "awaiting"
  /\ call' = [NoCall EXCEPT !.fn = "engineerPrompt", !.prompt = p, !.apiKey = k,
                            !.pc = "awaiting", !.requests = 1]
  /\ UNCHANGED app

(* generateImage(prompt, ..., apiKey), part_001 lines 239-264 *)
InvokeGenerateImage(p, k) ==
  /\ call.pc # "awaiting"
  /\ call' = [NoCall EXCEPT !.fn = "generateImage", !.prompt = p, !.apiKey = k,
                            !.pc = "awaiting", !.requests = 1]
  /\ UNCHANGED app

(* the awaited generateContent settles and the client runs to its end *)
QuoteResponds(o) ==
  /\ call.pc = "awaiting" /\ call.fn = "addQuotesToPrompt"
  /\ call' = Settle(addQuotesToPrompt(call.prompt, o), Some(o))
  /\ UNCHANGED app

EngineerResponds(o) ==
  /\ call.pc = "awaiting" /\ call.fn = "engineerPrompt"
  /\ call' = Settle(engineerPrompt(o), Some(o))
  /\ UNCHANGED app

ImageResponds(o) ==
  /\ call.pc = "awaiting" /\ call.fn = "generateImage"
  /\ call' = Settle(generateImage(o), Some(o))
  /\ UNCHANGED app

NextClients ==
  \/ \E p \in Prompts, k \in ApiKeys : InvokeAddQuotes(p, k)
  \/ \E p \in Prompts, k \in ApiKeys : InvokeEngineer(p, k)
  \/ \E p \in Prompts, k \in ApiKeys : InvokeGenerateImage(p, k)
  \/ \E o \in QuoteOutcomes : QuoteResponds(o)
  \/ \E o \in EngineerOutcomes : EngineerResponds(o)
  \/ \E o \in ImageOutcomes : ImageResponds(o)

SpecClients == Init /\ [][NextClients]_vars

(* ============================== properties ============================== *)
Pipeline ==
  <<"addQuotesToPrompt", "extractTextAndGeneratePlates", "engineerPrompt", "generateImage">>

IsPrefix(s, t) == Len(s) <= Len(t) /\ s = SubSeq(t, 1, Len(s))

Invoked(fn) == \E k \in 1..Len(hist.calls) : hist.calls[k] = fn

Started == hist.outcome # "none"

(* C1: a Retry clicked in the success view invokes neither addQuotesToPrompt
   nor engineerPrompt; it invokes generateImage exactly once, with the prompt,
   text plates and reference images that the preceding run gave generateImage. *)
C1_RetryReusesConfig ==
  (Started /\ hist.from = SUCCESS) =>
     /\ hist.calls = <<"generateImage">>
     /\ hist.genArgs # None
     /\ hist.genArgs = hist.prevGenArgs
     /\ \A i \in DOMAIN runs : runs[i].pc = "generateImage" /\ Some(runs[i].config) = hist.prevGenArgs

C1_Witness ==
  /\ hist.from = SUCCESS /\ hist.outcome = "success" /\ hist.justEnded
  /\ hist.genArgs # None /\ hist.genArgs[1].textPlates # <<>>
  /\ hist.genArgs[1].referenceImages # <<>>

(* C2: on a first generation, generateImage is reached with getGroundingImage
   invoked before it exactly when the engineered prompt carries a non-null
   grounding_search_query. *)
C2_GroundingInvoked ==
  \A i \in DOMAIN runs :
     (runs[i].pc = "generateImage" /\ ~runs[i].isRetry) =>
        (hist.grounding \notin {Null, Undefined} <=> Invoked("getGroundingImage"))

(* C3: a first generation runs quoting, plate rendering, engineering and image
   generation in that order, each started when the previous one has completed;
   at most one call is in flight; after a failed engineering step
   generateImage is never invoked in that run. *)
C3_StrictlySequential ==
  /\ Len(runs) <= 1
  /\ (Started /\ hist.from # SUCCESS) => IsPrefix(hist.calls, Pipeline)
  /\ \A i \in DOMAIN runs :
        hist.calls # <<>> /\ runs[i].pc = hist.calls[Len(hist.calls)]
  /\ (hist.failure # None /\ hist.failure[1].step \in {"engineerPrompt", "handleGenerate"})
        => ~Invoked("generateImage")

C3_Witness ==
  /\ hist.failure # None /\ hist.failure[1].step = "engineerPrompt"
  /\ hist.calls = SubSeq(Pipeline, 1, 3)
  /\ runs = <<>>

(* C4: a generation attempted right after a first generation whose engineering
   succeeded and whose image generation failed invokes only generateImage. *)
C4_RetryAfterImageFailure ==
  (Started /\ hist.previous = "generateImage failed" /\ ~hist.previousRetry) =>
     \A k \in 1..Len(hist.calls) : hist.calls[k] = "generateImage"

(* C5: a non-retry attempt with an empty or whitespace-only prompt invokes none
   of addQuotesToPrompt, engineerPrompt, generateImage and never makes the
   state Loading. *)
C5_BlankPromptRejected ==
  (Started /\ hist.from # SUCCESS /\ trim(hist.prompt) = <<>>) =>
     /\ hist.calls = <<>>
     /\ runs = <<>>
     /\ appState # LOADING
     /\ hist.outcome \in {"rejected", "nokey"}

C5_Witness ==
  /\ hist.outcome = "rejected" /\ hist.justEnded
  /\ hist.prompt = <<Space>>
  /\ userPrompt = <<Space>>

(* C6 as stated: Success and Error are entered only from Loading. *)
C6_OnlyFromLoading ==
  [][ (appState' \in {SUCCESS, ERROR} /\ appState' # appState) => appState = LOADING ]_vars

(* C6 amended: Success is entered only from Loading; Error is entered from
   Loading, or from Idle or Error by the rejection of a Generate click whose
   prompt is whitespace-only, which starts no run. *)
C6_EntryPoints ==
  [][ /\ (appState' = SUCCESS /\ appState # SUCCESS) => appState = LOADING
      /\ (appState' = ERROR /\ (appState # ERROR \/ errorMessage' # errorMessage)) =>
            \/ appState = LOADING
            \/ /\ appState \in {IDLE, ERROR}
               /\ userPrompt # <<>> /\ trim(userPrompt) = <<>>
               /\ errorMessage' = Some(<<ENTER_A_PROMPT, ": ", UNKNOWN_ERROR>>)
               /\ runs' = runs /\ runs = <<>> ]_vars

C6_Witness ==
  /\ appState = ERROR /\ hist.from = IDLE /\ hist.outcome = "rejected"
  /\ errorMessage = Some(<<ENTER_A_PROMPT, ": ", UNKNOWN_ERROR>>)

HasKeyText(error) ==
  error.isError /\ \E k \in 1..Len(error.message) :
                     error.message[k] \in {KEY_NOT_VALID, API_KEY_INVALID}

FailedIn(steps) ==
  hist.justEnded /\ hist.failure # None /\ hist.failure[1].step \in steps

(* C7: when engineerPrompt or generateImage fails with an error whose message
   contains 'API key not valid' or 'API_KEY_INVALID', the stored credential
   is removed, the credential in memory is null, the modal is open with the
   invalid-key error, and the state is Idle with no error message. *)
C7_InvalidKeyReset ==
  (FailedIn({"engineerPrompt", "generateImage"}) /\ HasKeyText(hist.failure[1].error)) =>
     /\ localStorage = Null
     /\ apiKey = Null
     /\ isApiKeyModalOpen /\ apiKeyError = KEY_IS_INVALID
     /\ appState = IDLE
     /\ errorMessage = None /\ ~ShowError

C7_Witness ==
  /\ FailedIn({"generateImage"})
  /\ hist.failure[1].error = MkError(<<"{reason: ", API_KEY_INVALID, "}">>)
  /\ isApiKeyModalOpen

(* C8 as stated: a credential rejection by the quoting, engineering or
   image-generation endpoint during a run ends with the stored credential
   cleared, the modal open and the form shown. *)
C8_AnyEndpointRejection ==
  (hist.justEnded /\ hist.rejected # {}) =>
     localStorage = Null /\ isApiKeyModalOpen /\ ShowForm

(* C8 amended: a credential rejection by the engineering or image-generation
   endpoint ends the run with the stored credential cleared, the modal open
   and the form shown; a rejection by the quoting endpoint is swallowed: the
   run goes on with the original prompt and the credential is kept. *)
C8_RejectionHandling ==
  /\ (hist.justEnded /\ hist.rejected \cap {"engineerPrompt", "generateImage"} # {}) =>
        localStorage = Null /\ isApiKeyModalOpen /\ ShowForm
  /\ \A i \in DOMAIN runs :
        ("addQuotesToPrompt" \in hist.rejected /\ runs[i].pc = "extractTextAndGeneratePlates") =>
           /\ runs[i].quotedPrompt = runs[i].currentPrompt
           /\ appState = LOADING /\ ~isApiKeyModalOpen
           /\ apiKey = runs[i].apiKey /\ localStorage = runs[i].apiKey

C8_Witness ==
  /\ hist.justEnded /\ hist.rejected = {"addQuotesToPrompt", "engineerPrompt"}
  /\ localStorage = Null /\ isApiKeyModalOpen

(* C9: a failure of engineerPrompt or generateImage without the invalid-key
   texts ends the run with no later step invoked, the error message
   'Generation failed: <details>', the state Error, no result, and the
   credential in memory and in storage as before. *)
C9_GenericFailure ==
  [][ ( /\ Len(runs') < Len(runs)
        /\ hist'.failure # None
        /\ hist'.failure[1].step \in {"engineerPrompt", "generateImage"}
        /\ ~HasKeyText(hist'.failure[1].error) ) =>
      ( /\ runs' = <<>>
        /\ hist'.calls = hist.calls
        /\ hist'.calls[Len(hist'.calls)] = hist'.failure[1].step
        /\ errorMessage' = Some(<<GENERATION_FAILED, ": ">> \o
               (IF hist'.failure[1].error.isError
                THEN hist'.failure[1].error.message ELSE <<UNKNOWN_ERROR>>))
        /\ appState' = ERROR
        /\ resultUrl' = None
        /\ apiKey' = apiKey /\ localStorage' = localStorage
        /\ apiKey' # Null /\ isApiKeyModalOpen' = isApiKeyModalOpen ) ]_vars

C9_Witness ==
  /\ FailedIn({"generateImage"})
  /\ hist.failure[1].error = MkError(<<NO_IMAGE>>)
  /\ appState = ERROR
  /\ errorMessage = Some(<<GENERATION_FAILED, ": ", NO_IMAGE>>)

Shown == {v \in {"modal", "loading", "success", "error"} :
            \/ v = "modal" /\ ShowModal
            \/ v = "loading" /\ ShowLoading
            \/ v = "success" /\ ShowSuccess
            \/ v = "error" /\ ShowError}

(* C10 as stated: once the app is mounted, exactly one of the loading indicator, the success view, the
   error view and the credential modal is shown, and the form is not shown
   together with the error view. *)
C10_ExactlyOneView ==
  mounted => (Cardinality(Shown) = 1 /\ ~(ShowForm /\ ShowError))

(* C10 amended: at most one of the four views is shown; none of them is shown
   exactly when the state is Idle with the modal closed; the form is shown
   exactly when the state is Idle or Error, so it accompanies the error view. *)
C10_AtMostOneView ==
  /\ Cardinality(Shown) <= 1
  /\ (Shown = {} <=> (appState = IDLE /\ ~isApiKeyModalOpen))
  /\ (ShowForm <=> appState \in {IDLE, ERROR})
  /\ (appState = ERROR => ShowError /\ ShowForm)
  /\ (appState = SUCCESS => ShowSuccess)

C10_Witness ==
  /\ Shown = {"modal"} /\ apiKeyError = KEY_IS_INVALID /\ appState = IDLE
  /\ lastConfig # None

(* C11: for an empty or whitespace-only prompt, addQuotesToPrompt returns its
   input unchanged and sends no request to the text-generation endpoint. *)
C11_BlankPromptUntouched ==
  (call.fn = "addQuotesToPrompt" /\ trim(call.prompt) = <<>>) =>
     /\ call.pc = "settled"
     /\ call.requests = 0
     /\ call.result = Some(Returned(call.prompt))

C11_Witness ==
  /\ call.fn = "addQuotesToPrompt" /\ call.prompt = <<Space, Space>>
  /\ call.pc = "settled" /\ call.requests = 0

(* C12: for a non-blank prompt addQuotesToPrompt never throws; when its
   endpoint call fails or the trimmed answer is empty it returns the original
   prompt, and the run goes on to call engineerPrompt with that prompt. *)
C12_QuotingNeverBlocks ==
  /\ hist.failure # None => hist.failure[1].step # "addQuotesToPrompt"
  /\ \A i \in DOMAIN runs :
        /\ (runs[i].pc \in {"extractTextAndGeneratePlates", "engineerPrompt"}
             /\ hist.quoteFailed) =>
               /\ trim(hist.prompt) # <<>>
               /\ runs[i].quotedPrompt = hist.prompt
        /\ runs[i].pc = "engineerPrompt" =>
               /\ Invoked("engineerPrompt")
               /\ runs[i].quotedPrompt # <<>>

C12_Witness ==
  /\ hist.quoteFailed /\ "addQuotesToPrompt" \in hist.rejected
  /\ \E i \in DOMAIN runs :
        runs[i].pc = "engineerPrompt" /\ runs[i].quotedPrompt = <<Space, "a">>

Conforming(response) ==
  /\ response.json = "object"
  /\ response.object.professional_prompt # Undefined
  /\ response.object.text_replication_instruction # Undefined
  /\ response.object.negative_prompt # Undefined

(* C13: for a response of the engineering endpoint that is not an object
   conforming to the EngineeredPrompt schema, engineerPrompt fails with an
   error whose message includes the raw response text, after one request. *)
C13_NonConformingRejected ==
  (call.fn = "engineerPrompt" /\ call.pc = "settled" /\ call.outcome[1].ok
   /\ ~Conforming(call.outcome[1].response)) =>
     /\ call.requests = 1
     /\ call.result[1].threw
     /\ \E k \in 1..Len(call.result[1].error.message) :
           call.result[1].error.message[k] = call.outcome[1].response.raw

HasImagePart(response) ==
  response.hasCandidates /\ \E k \in 1..Len(response.parts) : response.parts[k].inline

(* C14: for a response without image payload, the response without candidates
   included, generateImage fails with 'No image was generated by the model.';
   otherwise it returns the first image part as a data URL. *)
C14_NoImageError ==
  (call.fn = "generateImage" /\ call.pc = "settled" /\ call.outcome[1].ok) =>
     LET response == call.outcome[1].response
     IN  IF HasImagePart(response)
         THEN LET first == CHOOSE k \in 1..Len(response.parts) :
                             /\ response.parts[k].inline
                             /\ \A j \in 1..(k - 1) : ~response.parts[j].inline
              IN  call.result[1] = Returned(<<"data:image/png;base64,", response.parts[first].data>>)
         ELSE /\ call.result[1].threw
              /\ call.result[1].error = MkError(<<NO_IMAGE>>)

(* C15: while the state is Loading no generate, retry or start-over action is
   enabled and exactly one run is in flight; there is never more than one
   run; the state leaves Loading only when that run completes, to Success, to
   Error, or to Idle on an invalid-credential failure. *)
C15_NoCancellation ==
  /\ [](/\ Len(runs) <= 1
        /\ (appState = LOADING <=> Len(runs) = 1)
        /\ (appState = LOADING) =>
              ~GenerateEnabled /\ ~ShowForm /\ ~ShowSuccess /\ ~ShowError /\ ~ShowModal)
  /\ [][ (appState = LOADING /\ appState' # LOADING) =>
           /\ runs' = <<>> /\ hist'.justEnded
           /\ \/ appState' = SUCCESS /\ hist'.outcome = "success"
              \/ appState' = ERROR /\ hist'.failure # None
              \/ appState' = IDLE /\ hist'.failure # None
                 /\ HasKeyText(hist'.failure[1].error) ]_vars

C15_Witness ==
  /\ appState = LOADING /\ userPrompt # <<>>
  /\ \E i \in DOMAIN runs : runs[i].pc = "generateImage" /\ runs[i].isRetry

(* C16: start over, from Error or from Success, makes the state Idle, clears
   the result, the error message, the prompt, the reference images and the
   stored config, resets the aspect ratio to Square, and leaves the
   credential in memory and in storage and the modal as they were. *)
C16_StartOverFrame ==
  [][ (appState \in {ERROR, SUCCESS} /\ appState' = IDLE) =>
        /\ resultUrl' = None /\ errorMessage' = None
        /\ userPrompt' = <<>> /\ referenceImages' = <<>>
        /\ lastConfig' = None /\ aspectRatio' = SQUARE
        /\ apiKey' = apiKey /\ localStorage' = localStorage
        /\ isApiKeyModalOpen' = isApiKeyModalOpen /\ apiKeyError' = apiKeyError
        /\ runs' = runs ]_vars

C16_Witness ==
  /\ hist.startOverFrom = ERROR /\ appState = IDLE
  /\ lastConfig = None /\ apiKey # Null

(* C17: whenever generateImage has been invoked by a run, lastConfig holds
   exactly the prompt, text plates and reference images given to it; in every
   Success state resultUrl and lastConfig are non-null, so Retry, which is
   offered there, takes the retry branch. *)
C17_ConfigPersistedBeforeImage ==
  /\ \A i \in DOMAIN runs :
        runs[i].pc = "generateImage" =>
           lastConfig = Some(runs[i].config) /\ hist.genArgs = lastConfig
  /\ appState = SUCCESS =>
        /\ resultUrl # None /\ lastConfig # None
        /\ lastConfig = hist.genArgs
        /\ ShowSuccess
  /\ (Started /\ hist.from = SUCCESS) => hist.isRetry

C17_Witness ==
  /\ appState = SUCCESS /\ ~hist.isRetry /\ hist.justEnded
  /\ lastConfig # None /\ lastConfig[1].textPlates # <<>>

(* C18: once the mount effect has run, the modal is open exactly when no
   credential is held in memory, the credential in memory equals the stored
   one, and whenever the modal is open the state is Idle with no result and no
   error message. *)
C18_CredentialLifecycle ==
  mounted =>
     /\ (isApiKeyModalOpen <=> apiKey = Null)
     /\ apiKey = localStorage
     /\ isApiKeyModalOpen =>
           appState = IDLE /\ resultUrl = None /\ errorMessage = None

C18_Witness ==
  /\ mounted /\ apiKey = "key2" /\ localStorage = "key2" /\ ~isApiKeyModalOpen
  /\ apiKeyError = Undefined /\ lastConfig # None

(* C19: the error message is non-null exactly in the Error state and the
   result is non-null only in the Success state; both are null while Loading
   and after an invalid-credential failure, and a failed retry from Success
   leaves no result. *)
C19_MessageAndResult ==
  /\ (errorMessage # None <=> appState = ERROR)
  /\ (resultUrl # None => appState = SUCCESS)
  /\ appState = LOADING => errorMessage = None /\ resultUrl = None
  /\ (hist.justEnded /\ hist.failure # None /\ HasKeyText(hist.failure[1].error)) =>
        appState = IDLE /\ errorMessage = None /\ resultUrl = None
  /\ (hist.justEnded /\ hist.from = SUCCESS /\ hist.failure # None) => resultUrl = None

C19_Witness ==
  /\ hist.justEnded /\ hist.from = SUCCESS /\ hist.failure # None
  /\ appState = ERROR /\ resultUrl = None /\ lastConfig # None

(* C20: if every awaited call settles, a generation that has made the state
   Loading eventually leaves it. *)
C20_LoadingEnds == (appState = LOADING) ~> (appState # LOADING)

C20_Witness ==
  /\ hist.justEnded /\ ~hist.isRetry /\ hist.outcome = "success"
  /\ hist.calls = Pipeline /\ appState = SUCCESS /\ runs = <<>>

====
